---- MODULE Spec2Model ----
(***************************************************************************)
(* Model of the resu library: the Result value type, the Pipe combinator   *)
(* (Pipe.Sync, Pipe.Async) and the Try combinator (Try.Sync, Try.Async).   *)
(*                                                                         *)
(* A JavaScript value is a record [k, status, data, tag, id]:              *)
(*   k      "raw" for a non-Result value, "ok" for an object carrying      *)
(*          OK_SYMBOL, "error" for an object carrying ERROR_SYMBOL, "both" *)
(*          for an object carrying the two;                                *)
(*   status the object's status property ("" when it has none);            *)
(*   data   the payload, a record [t, v] (number, string, boolean, null,   *)
(*          undefined, exception, object); for a raw value, the value      *)
(*          itself;                                                        *)
(*   tag    the tag property, a string (TagNull for null, TagUndef for an  *)
(*          omitted argument);                                             *)
(*   id     the identity of the object (0 for a raw value): two Results    *)
(*          are the same object iff they have the same id.                 *)
(***************************************************************************)
EXTENDS Integers, Sequences, FiniteSets, TLC

\* ------------------------------------------------------------------ bounds

\* Most steps registered on the pipe.
MaxSteps == 2

\* Most executions (zero-argument calls and iterations) of a Sync pipe.
MaxExecs == 2

\* --------------------------------------------------------------- payloads

Num(n) == [t |-> "number", v |-> n]
Null == [t |-> "null", v |-> 0]
Undef == [t |-> "undefined", v |-> 0]
Exc == [t |-> "exception", v |-> 0]
EmptyStr == [t |-> "string", v |-> 0]
False == [t |-> "boolean", v |-> 0]
Obj == [t |-> "object", v |-> 0]
Str == [t |-> "string", v |-> 1]
NaN == [t |-> "NaN", v |-> 0]

\* A promise object (what it settles to is not part of the object).
PromiseObj == [t |-> "promise", v |-> 0]

\* The payload that is the Result object v itself (a Result put into data).
Boxed(v) == [t |-> "result", v |-> v.id]

TagNull == "<null>"
TagUndef == "<undefined>"

Raw(d) == [k |-> "raw", status |-> "", data |-> d, tag |-> TagNull, id |-> 0]

\* The absence of a value (a slot not yet filled).
NoValue == [k |-> "none", status |-> "", data |-> Undef, tag |-> TagNull, id |-> 0]

\* ----------------------------------------------------------------- Result

\* ResultConstructor storing every falsy data as null (data || null).
ResultConstructorFalsyData(sign, status, data, tag, id) ==
    [k |-> sign,
     status |-> status,
     data |-> IF data \in {Undef, Null, Num(0), EmptyStr, False} THEN Null ELSE data,
     tag |-> IF tag \in {TagUndef, TagNull, ""} THEN TagNull ELSE tag,
     id |-> id]

\* _Helpers.Result.ResultConstructor: undefined/null data is stored as null,
\* a falsy tag (undefined, null, "") as null; the object carries `sign`.
ResultConstructor(sign, status, data, tag, id) ==
    [k |-> sign,
     status |-> status,
     data |-> IF data \in {Undef, Null} THEN Null ELSE data,
     tag |-> IF tag \in {TagUndef, TagNull, ""} THEN TagNull ELSE tag,
     id |-> id]

\* A plain object { status, tag } built without the library (a look-alike).
Fake(status, tag) == [k |-> "raw", status |-> status, data |-> Obj, tag |-> tag, id |-> 0]

\* The markers of { ...params, [sign]: sign } when params was spread from an
\* object with the markers k.
Marked(k, sign) == IF k \in {"ok", "error", "both"} /\ k # sign THEN "both" ELSE sign

\* _Ok.Ok({data, tag}): a new object with identity id.
Ok(data, tag, id) == ResultConstructor("ok", "ok", data, tag, id)

\* _Error.Error({data, tag}): a new object with identity id.
Error(data, tag, id) == ResultConstructor("error", "error", data, tag, id)

\* IsOk reading the status property instead of the marker.
IsOkByStatus(v) == v.status = "ok"

\* _Ok.IsOk: the object carries OK_SYMBOL.
IsOk(v) == v.k \in {"ok", "both"}

\* _Error.IsError: the object carries ERROR_SYMBOL.
IsError(v) == v.k \in {"error", "both"}

IsResult(v) == IsOk(v) \/ IsError(v)

\* OkFrom with the tag of the source Result lost.
OkFromLosesTag(v, tag, id) == Ok(v.data, tag, id)

\* OkFrom choosing the tag with || : a tag argument of null or "" falls back
\* to the tag of the Result.
OkFromTagOr(v, tag, id) ==
    IF IsOk(v)
    THEN [Ok(v.data, IF tag \notin {TagUndef, TagNull, ""} THEN tag ELSE v.tag, id)
             EXCEPT !.k = Marked(v.k, "ok"), !.status = v.status]
    ELSE IF IsError(v)
    THEN Ok(v.data, IF tag \notin {TagUndef, TagNull, ""} THEN tag ELSE v.tag, id)
    ELSE Ok(v.data, tag, id)

\* OkFrom putting an Error it is given into the data of the new Ok.
OkFromNestsError(v, tag, id) ==
    IF IsOk(v)
    THEN [Ok(v.data, IF tag # TagUndef THEN tag ELSE v.tag, id)
             EXCEPT !.k = Marked(v.k, "ok"), !.status = v.status]
    ELSE Ok(IF IsError(v) THEN Boxed(v) ELSE v.data, tag, id)

\* _Ok.OkFrom(data, tag?): always a new Ok; a Result's data is carried
\* over, and its tag kept when the tag argument is omitted. An Ok is spread
\* into the parameters of Ok: its status and markers come along.
OkFrom(v, tag, id) ==
    IF IsOk(v)
    THEN [Ok(v.data, IF tag # TagUndef THEN tag ELSE v.tag, id)
             EXCEPT !.k = Marked(v.k, "ok"), !.status = v.status]
    ELSE IF IsError(v) THEN Ok(v.data, IF tag # TagUndef THEN tag ELSE v.tag, id)
    ELSE Ok(v.data, tag, id)

\* _Error.ErrorFrom(data, tag?): an Error is spread into the parameters of
\* Error.
ErrorFrom(v, tag, id) ==
    IF IsError(v)
    THEN [Error(v.data, IF tag # TagUndef THEN tag ELSE v.tag, id)
             EXCEPT !.k = Marked(v.k, "error"), !.status = v.status]
    ELSE IF IsOk(v) THEN Error(v.data, IF tag # TagUndef THEN tag ELSE v.tag, id)
    ELSE Error(v.data, tag, id)

\* OkFromUnlessError putting a Result it is given into the data of a new Ok.
OkFromUnlessErrorWraps(v, tag, id) ==
    IF IsError(v) THEN v
    ELSE Ok(IF IsResult(v) THEN Boxed(v) ELSE v.data, tag, id)

\* _Ok.OkFromUnlessError(value, tag?): an Error is returned as it is.
OkFromUnlessError(v, tag, id) == IF IsError(v) THEN v ELSE OkFrom(v, tag, id)

\* _Error.ErrorFromUnlessOk(data, tag?): an Ok is returned as it is.
ErrorFromUnlessOk(v, tag, id) == IF IsOk(v) THEN v ELSE ErrorFrom(v, tag, id)

\* Two Results agree in status, data and tag (they may be distinct objects).
SameSDT(a, b) == a.status = b.status /\ a.data = b.data /\ a.tag = b.tag

\* ------------------------------------------------------- step functions

\* The step functions a caller registers, as the tests and the README use
\* them:
\*   "inc"    x => x.data + 1                       (a raw return)
\*   "dbl"    x => Result.Ok({ data: x.data * 2, tag: 'Doubled' })
\*   "fail"   _ => Result.Error({ tag: 'Error' })
\*   "throw"  _ => { throw new Error() }
\*   "reject" async _ => { throw new Error() }      (a rejecting promise)
StepKinds == {"inc", "dbl", "fail", "throw", "reject"}

\* d + 1 and d * 2 in JavaScript: arithmetic on a number; an object or a
\* string is concatenated with "1" by +, and gives NaN under *.
Plus1(d) ==
    IF d.t = "number" THEN Num(d.v + 1) ELSE IF d.t = "NaN" THEN NaN ELSE Str

Times2(d) == IF d.t = "number" THEN Num(d.v * 2) ELSE NaN

\* What a step does when invoked with arg; a Result it builds gets identity id.
\* thrown: the step threw (or its promise rejects), val is then the exception.
StepApply(kind, arg, id) ==
    CASE kind = "inc" -> [thrown |-> FALSE, val |-> Raw(Plus1(arg.data))]
      [] kind = "dbl" -> [thrown |-> FALSE, val |-> Ok(Times2(arg.data), "Doubled", id)]
      [] kind = "fail" -> [thrown |-> FALSE, val |-> Error(Undef, "Error", id)]
      [] kind = "throw" -> [thrown |-> TRUE, val |-> Raw(Exc)]
      [] kind = "reject" -> [thrown |-> TRUE, val |-> Raw(Exc)]

\* The initial values given to Pipe.Sync / Pipe.Async.
InitValues ==
    {Raw(Num(1)), Ok(Num(100), "Initial", 1), Error(Undef, "E", 1)}

\* ------------------------------------------------------------------- Pipe

VARIABLES
    variant,      \* "Sync" for Pipe.Sync, "Async" for Pipe.Async
    initial,      \* the normalized initial Result, as computed at construction
    transformers, \* the closure's array of registered steps
    lastResult,   \* the closure's lastResult variable
    execs,        \* the executions started so far, in the order they started
    lastRet,      \* what the last call next(transformer) returned
    given,        \* the initial value the caller has: the literal, what the
                  \* producer returns, or what the promise is fulfilled with
    initForm,     \* how it is passed as `result`: "value", "producer" (a
                  \* function returning it), "promise" (a promise of it),
                  \* "producerPromise" (a function returning a promise of it)
    producerCalls \* number of invocations of the producer function

pipeVars == <<variant, initial, transformers, lastResult, execs, lastRet,
              given, initForm, producerCalls>>

\* ---------------------------------------------------------- Try (state)

VARIABLES
    tin,        \* the argument of Try.Sync / Try.Async (see TryInputs)
    tpc,        \* "idle", "racing" (Try.Async suspended at its await), "done"
    tryPromise, \* the promise the try callback returned: "none", "pending",
                \* "fulfilled", "rejected"
    aborted,    \* signal.aborted
    winner,     \* what settled the awaited promise first: "none", "try", "abort"
    tryCalls,   \* number of invocations of the try callback
    catchCalls, \* number of invocations of the catch handler
    tout,       \* the outcome: [st |-> "none" | "returned" | "thrown", val]
    tryArgs,    \* the argument list of each invocation of the try callback
    catchArgs,  \* the argument of each invocation of the catch handler
    abortAt,    \* where Try.Async was when the signal aborted: "never",
                \* "idle" (not yet called), "pending" (suspended, the try
                \* promise pending), "settled" (suspended, the try promise
                \* settled), "done"
    logged      \* the Results handed to Logger.Engine, in order

tryVars == <<tin, tpc, tryPromise, aborted, winner, tryCalls, catchCalls, tout,
             tryArgs, catchArgs, abortAt, logged>>

\* -------------------------------------------------------- Match (state)

VARIABLES
    mres,     \* the Result given to Match
    matcher,  \* the matcher: for each key of MatchKeys, the handler under it
              \* ("absent" when the matcher has no such key)
    mpc,      \* "idle" before the call of Match, "done" after it
    mcalls,   \* the handlers invoked: the key of each and its argument
    mout      \* the outcome: [st |-> "none" | "returned" | "thrown", val]

matchVars == <<mres, matcher, mpc, mcalls, mout>>

\* ------------------------------------------------- Result functions (state)

VARIABLES
    rv,     \* the value at hand: given by the caller, or the return of the
            \* last function of Result called
    rin,    \* the value the last function was given
    rop,    \* the last function called and its parameters [op, data, tag]
    rpath,  \* how rv was built: "given" (not by the library), "ok" (by
            \* _Ok.Ok), "error" (by _Error.Error)
    rn,     \* number of functions that returned so far
    rlogger, \* the settings of Logger: LogOkResult, LogErrorResult, Engine
    rvlog,  \* the log property of the object rv: "unset", "true", "false"
    rcons,  \* the construction the last function called made (see NoCons)
    rcalls, \* the Results the last function called handed to Logger.Engine
    rout    \* how the last function called ended: "none" (none called),
            \* "returned", "thrown"

resVars == <<rv, rin, rop, rpath, rn, rlogger, rvlog, rcons, rcalls, rout>>

vars == <<pipeVars, tryVars, matchVars, resVars>>

\* One execution of the chain: a zero-argument call (kind "call") or an
\* iteration of the pipe (kind "iter").
\*   st       "running", "returned" (for Async: the promise fulfilled), or
\*            "thrown" (an exception left the call; for Async: rejected)
\*   pc       where a running Async execution is suspended: "fetch" at the
\*            for-await of the transformers array, "step" at the await of
\*            the transformer's return
\*   idx, cur, fdone   the array iterator's position, the transformer it
\*            delivered, whether it reported the end of the array
\*   pend     the outcome of the transformer being awaited
\*   ret      the value returned: <<r>> for a Result r, the elements for an
\*            array (arr = TRUE)
\*   yielded  the elements the iteration has produced for its consumer
\*   inv      the transformers invoked, in order, with argument and outcome
\*   steps0   the registered steps when the execution started
\*   alone    no other execution was in flight while this one ran
\*   midStep  the execution started while another one was awaiting the
\*            return of a transformer
\*   flying   the transformers invoked whose return is still awaited
NoOut == [thrown |-> FALSE, val |-> NoValue]

NewExec(kind, steps) ==
    [kind |-> kind, st |-> "running", pc |-> "fetch", idx |-> 0, cur |-> "",
     fdone |-> FALSE, pend |-> NoOut, ret |-> << >>, arr |-> FALSE,
     yielded |-> << >>, inv |-> << >>, steps0 |-> steps, alone |-> TRUE,
     midStep |-> FALSE, flying |-> 0]

Running(e) == e.st = "running"

AnyRunning == \E i \in 1..Len(execs) : Running(execs[i])

AnyMidStep == \E i \in 1..Len(execs) : Running(execs[i]) /\ execs[i].pc = "step"

\* An Async pipe has two callers, each of which executes it once (a call or
\* an iteration), the second possibly while the first is still in flight.
MayStart == Len(execs) <= 1

\* The identities of the objects execution number n creates: FirstId(n) for
\* the generator's OkFromUnlessError(lastResult), StepId(n, i) for the Result
\* step i builds, NormId(n, i) for the OkFrom of step i's return. Identities
\* 1 and 2 belong to the construction of the pipe.
FirstId(n) == 3 + (n - 1) * 2 * (MaxSteps + 1)

StepId(n, i) == FirstId(n) + 2 * i

NormId(n, i) == FirstId(n) + 2 * i + 1

\* RunLoop without the early return: an Error is normalized and handed on.
RECURSIVE RunLoopNoEarlyExit(_, _, _, _, _)
RunLoopNoEarlyExit(ts, i, last, n, inv) ==
    IF i > Len(ts)
    THEN [st |-> "returned", val |-> last, last |-> last, inv |-> inv, atEnd |-> TRUE]
    ELSE LET out == StepApply(ts[i], last, StepId(n, i))
             inv2 == Append(inv, [idx |-> i, kind |-> ts[i], arg |-> last, out |-> out])
         IN  IF out.thrown
             THEN [st |-> "thrown", val |-> out.val, last |-> last, inv |-> inv2, atEnd |-> FALSE]
             ELSE RunLoopNoEarlyExit(ts, i + 1, OkFrom(out.val, TagUndef, NormId(n, i)), n, inv2)

\* RunLoop with the step's exception caught and returned as an Error.
RECURSIVE RunLoopCatches(_, _, _, _, _)
RunLoopCatches(ts, i, last, n, inv) ==
    IF i > Len(ts)
    THEN [st |-> "returned", val |-> last, last |-> last, inv |-> inv, atEnd |-> TRUE]
    ELSE LET out == StepApply(ts[i], last, StepId(n, i))
             inv2 == Append(inv, [idx |-> i, kind |-> ts[i], arg |-> last, out |-> out])
         IN  IF out.thrown
             THEN [st |-> "returned", val |-> Error(out.val.data, TagUndef, NormId(n, i)),
                   last |-> last, inv |-> inv2, atEnd |-> FALSE]
             ELSE IF IsError(out.val)
             THEN [st |-> "returned", val |-> out.val, last |-> last, inv |-> inv2, atEnd |-> FALSE]
             ELSE RunLoopCatches(ts, i + 1, OkFrom(out.val, TagUndef, NormId(n, i)), n, inv2)

\* The for loop of next (and of the generator): from step i on, with
\* lastResult = last. Gives how the loop ended (st), the Result returned by
\* a return inside the loop or lastResult at its end (val), the final
\* lastResult (last) and the invocations made (inv).
RECURSIVE RunLoop(_, _, _, _, _)
RunLoop(ts, i, last, n, inv) ==
    IF i > Len(ts)
    THEN [st |-> "returned", val |-> last, last |-> last, inv |-> inv, atEnd |-> TRUE]
    ELSE LET out == StepApply(ts[i], last, StepId(n, i))
             inv2 == Append(inv, [idx |-> i, kind |-> ts[i], arg |-> last, out |-> out])
         IN  IF out.thrown
             THEN [st |-> "thrown", val |-> out.val, last |-> last, inv |-> inv2, atEnd |-> FALSE]
             ELSE IF IsError(out.val)
             THEN [st |-> "returned", val |-> out.val, last |-> last, inv |-> inv2, atEnd |-> FALSE]
             ELSE RunLoop(ts, i + 1, OkFrom(out.val, TagUndef, NormId(n, i)), n, inv2)

\* The forms of the argument `result`: Pipe.Async also takes a promise and
\* a function returning a promise.
InitForms(v) ==
    IF v = "Sync" THEN {"value", "producer"}
    ELSE {"value", "producer", "promise", "producerPromise"}

\* What `typeof result === 'function' ? result() : result` gives: the value,
\* or the promise object itself (it is not awaited).
InitArg(form, v) ==
    IF form \in {"promise", "producerPromise"} THEN Raw(PromiseObj) ELSE v

\* Pipe.Sync(result) / Pipe.Async(result): the state after construction.
PipeInit ==
    /\ variant \in {"Sync", "Async"}
    /\ given \in InitValues
    /\ initForm \in InitForms(variant)
    /\ producerCalls = (IF initForm \in {"producer", "producerPromise"} THEN 1 ELSE 0)
    /\ lastResult = OkFromUnlessError(InitArg(initForm, given), TagUndef, 2)
    /\ initial = lastResult
    /\ transformers = << >>
    /\ execs = << >>
    /\ lastRet = "none"

\* next(transformer) putting the step in front of the registered ones.
RegisterPrepends(kind) ==
    /\ Len(transformers) < MaxSteps
    /\ ~AnyRunning
    /\ kind = "reject" => variant = "Async"
    /\ transformers' = <<kind>> \o transformers
    /\ lastRet' = IF variant = "Sync" THEN "pipe" ELSE "promise"
    /\ UNCHANGED <<given, initForm, producerCalls, variant, initial, lastResult, execs>>
    /\ UNCHANGED <<tryVars, matchVars, resVars>>

\* next(transformer): the step is pushed and next is returned; Pipe.Async's
\* next is an async function, so its caller gets a promise of next.
Register(kind) ==
    /\ Len(transformers) < MaxSteps
    /\ ~AnyRunning
    /\ kind = "reject" => variant = "Async"
    /\ transformers' = Append(transformers, kind)
    /\ lastRet' = IF variant = "Sync" THEN "pipe" ELSE "promise"
    /\ UNCHANGED <<given, initForm, producerCalls, variant, initial, lastResult, execs>>
    /\ UNCHANGED <<tryVars, matchVars, resVars>>

\* The zero-argument call asking the producer for the initial value again.
SyncCallReinvokes ==
    /\ variant = "Sync"
    /\ Len(execs) < MaxExecs
    /\ LET e == NewExec("call", transformers)
           start == OkFromUnlessError(given, TagUndef, FirstId(Len(execs) + 1))
           r == RunLoop(transformers, 1, start, Len(execs) + 1, << >>)
       IN  IF IsError(start)
           THEN /\ execs' = Append(execs, [e EXCEPT !.st = "returned", !.pc = "done",
                                                   !.ret = <<start>>])
                /\ lastResult' = start
           ELSE /\ execs' = Append(execs, [e EXCEPT !.st = r.st, !.pc = "done",
                                                   !.ret = <<r.val>>, !.inv = r.inv])
                /\ lastResult' = r.last
    /\ producerCalls' = IF initForm = "producer" THEN producerCalls + 1 ELSE producerCalls
    /\ UNCHANGED <<given, initForm, variant, initial, transformers, lastRet>>
    /\ UNCHANGED <<tryVars, matchVars, resVars>>

\* The zero-argument call without the check of the initial value.
SyncCallUnchecked ==
    /\ variant = "Sync"
    /\ Len(execs) < MaxExecs
    /\ LET e == NewExec("call", transformers)
           r == RunLoop(transformers, 1, lastResult, Len(execs) + 1, << >>)
       IN  /\ execs' = Append(execs, [e EXCEPT !.st = r.st, !.pc = "done",
                                               !.ret = <<r.val>>, !.inv = r.inv])
           /\ lastResult' = r.last
    /\ UNCHANGED <<given, initForm, producerCalls, variant, initial, transformers, lastRet>>
    /\ UNCHANGED <<tryVars, matchVars, resVars>>

\* Pipe.Sync: next() with no argument.
SyncCall ==
    /\ variant = "Sync"
    /\ Len(execs) < MaxExecs
    /\ LET e == NewExec("call", transformers)
           r == RunLoop(transformers, 1, lastResult, Len(execs) + 1, << >>)
       IN  IF IsError(lastResult)
           THEN /\ execs' = Append(execs, [e EXCEPT !.st = "returned", !.pc = "done",
                                                   !.ret = <<lastResult>>])
                /\ UNCHANGED lastResult
           ELSE /\ execs' = Append(execs, [e EXCEPT !.st = r.st, !.pc = "done",
                                                   !.ret = <<r.val>>, !.inv = r.inv])
                /\ lastResult' = r.last
    /\ UNCHANGED <<given, initForm, producerCalls, variant, initial, transformers, lastRet>>
    /\ UNCHANGED <<tryVars, matchVars, resVars>>

\* Pipe.Sync: for (const res of pipe). The generator body holds no yield:
\* it runs to its return on the first request, and the consumer, which
\* discards a generator's return value, is given no element.
SyncIterate ==
    /\ variant = "Sync"
    /\ Len(execs) < MaxExecs
    /\ LET e == NewExec("iter", transformers)
           first == OkFromUnlessError(lastResult, TagUndef, FirstId(Len(execs) + 1))
           r == RunLoop(transformers, 1, lastResult, Len(execs) + 1, << >>)
       IN  IF IsError(lastResult)
           THEN /\ execs' = Append(execs, [e EXCEPT !.st = "returned", !.pc = "done",
                                                   !.ret = <<lastResult>>, !.arr = TRUE])
                /\ UNCHANGED lastResult
           ELSE /\ execs' = Append(execs, [e EXCEPT !.st = r.st, !.pc = "done",
                                                   !.ret = IF r.atEnd THEN <<first>> ELSE <<r.val>>,
                                                   !.arr = r.atEnd, !.inv = r.inv])
                /\ lastResult' = r.last
    /\ UNCHANGED <<given, initForm, producerCalls, variant, initial, transformers, lastRet>>
    /\ UNCHANGED <<tryVars, matchVars, resVars>>

\* The array iterator of `for await (const transformer of transformers)` is
\* asked for its next element: it reads the array as it is now, and the
\* execution is suspended until the element is delivered.
Fetch(e) ==
    IF e.idx + 1 <= Len(transformers)
    THEN [e EXCEPT !.pc = "fetch", !.idx = e.idx + 1, !.cur = transformers[e.idx + 1],
                   !.fdone = FALSE, !.pend = NoOut]
    ELSE [e EXCEPT !.pc = "fetch", !.idx = e.idx + 1, !.cur = "", !.fdone = TRUE,
                   !.pend = NoOut]

\* Starting an execution marks it and every execution still running as
\* overlapped.
Overlapped(es) ==
    [i \in 1..Len(es) |-> IF Running(es[i]) THEN [es[i] EXCEPT !.alone = FALSE] ELSE es[i]]

\* Pipe.Async: next() with no argument, up to its first await.
AsyncCall ==
    /\ variant = "Async"
    /\ MayStart
    /\ LET e == [NewExec("call", transformers) EXCEPT !.alone = ~AnyRunning,
                                                        !.midStep = AnyMidStep]
       IN  IF IsError(lastResult)
           THEN execs' = Append(execs, [e EXCEPT !.st = "returned", !.pc = "done",
                                                !.ret = <<lastResult>>])
           ELSE execs' = Append(Overlapped(execs), Fetch(e))
    /\ UNCHANGED <<given, initForm, producerCalls, variant, initial, transformers, lastResult, lastRet>>
    /\ UNCHANGED <<tryVars, matchVars, resVars>>

\* Pipe.Async: for await (const res of pipe), up to the generator's first
\* await. Like the synchronous generator, the body holds no yield.
AsyncIterate ==
    /\ variant = "Async"
    /\ MayStart
    /\ LET e == [NewExec("iter", transformers) EXCEPT !.alone = ~AnyRunning,
                                                        !.midStep = AnyMidStep]
           first == OkFromUnlessError(lastResult, TagUndef, FirstId(Len(execs) + 1))
       IN  IF IsError(lastResult)
           THEN execs' = Append(execs, [e EXCEPT !.st = "returned", !.pc = "done",
                                                !.ret = <<lastResult>>, !.arr = TRUE])
           ELSE execs' = Append(Overlapped(execs), [Fetch(e) EXCEPT !.ret = <<first>>])
    /\ UNCHANGED <<given, initForm, producerCalls, variant, initial, transformers, lastResult, lastRet>>
    /\ UNCHANGED <<tryVars, matchVars, resVars>>

\* AsyncInvoke with the transformer's return not awaited: the promise itself
\* is normalized into lastResult and the array iterator is asked again.
AsyncInvokeNoAwait(i) ==
    /\ i \in 1..Len(execs)
    /\ Running(execs[i])
    /\ execs[i].pc = "fetch"
    /\ LET e == execs[i]
           out == StepApply(e.cur, lastResult, StepId(i, e.idx))
           inv2 == Append(e.inv, [idx |-> e.idx, kind |-> e.cur, arg |-> lastResult, out |-> out])
       IN  IF e.fdone
           THEN /\ execs' = [execs EXCEPT ![i] =
                               [e EXCEPT !.st = "returned", !.pc = "done",
                                         !.ret = IF e.kind = "call" THEN <<lastResult>> ELSE e.ret,
                                         !.arr = (e.kind = "iter")]]
                /\ UNCHANGED lastResult
           ELSE IF e.cur = "throw"
           THEN /\ execs' = [execs EXCEPT ![i] =
                               [e EXCEPT !.st = "thrown", !.pc = "done",
                                         !.ret = <<out.val>>, !.inv = inv2]]
                /\ UNCHANGED lastResult
           ELSE /\ execs' = [execs EXCEPT ![i] =
                               [Fetch(e) EXCEPT !.inv = inv2, !.flying = e.flying + 1]]
                /\ lastResult' = Ok(Obj, TagUndef, NormId(i, e.idx))
    /\ UNCHANGED <<given, initForm, producerCalls, variant, initial, transformers, lastRet>>
    /\ UNCHANGED <<tryVars, matchVars, resVars>>

\* A suspended Async execution resumes with the array iterator's answer: at
\* the end of the array it returns (lastResult for a call, the results array
\* for an iteration); otherwise it invokes the transformer with lastResult
\* and awaits what it returns. A transformer that throws rejects the
\* execution at once.
AsyncInvoke(i) ==
    /\ i \in 1..Len(execs)
    /\ Running(execs[i])
    /\ execs[i].pc = "fetch"
    /\ LET e == execs[i]
           out == StepApply(e.cur, lastResult, StepId(i, e.idx))
           inv2 == Append(e.inv, [idx |-> e.idx, kind |-> e.cur, arg |-> lastResult, out |-> out])
       IN  IF e.fdone
           THEN execs' = [execs EXCEPT ![i] =
                            [e EXCEPT !.st = "returned", !.pc = "done",
                                      !.ret = IF e.kind = "call" THEN <<lastResult>> ELSE e.ret,
                                      !.arr = (e.kind = "iter")]]
           ELSE execs' = [execs EXCEPT ![i] =
                            IF e.cur = "throw"
                            THEN [e EXCEPT !.st = "thrown", !.pc = "done",
                                           !.ret = <<out.val>>, !.inv = inv2]
                            ELSE [e EXCEPT !.pc = "step", !.pend = out, !.inv = inv2,
                                           !.flying = e.flying + 1]]
    /\ UNCHANGED <<given, initForm, producerCalls, variant, initial, transformers, lastResult, lastRet>>
    /\ UNCHANGED <<tryVars, matchVars, resVars>>

\* A suspended Async execution resumes with the settled return of its
\* transformer: a rejection rejects the execution, an Error is returned,
\* anything else becomes lastResult and the array iterator is asked again.
AsyncSettle(i) ==
    /\ i \in 1..Len(execs)
    /\ Running(execs[i])
    /\ execs[i].pc = "step"
    /\ LET e == execs[i]
       IN  IF e.pend.thrown
           THEN /\ execs' = [execs EXCEPT ![i] =
                               [e EXCEPT !.st = "thrown", !.pc = "done", !.ret = <<e.pend.val>>,
                                         !.arr = FALSE, !.flying = e.flying - 1]]
                /\ UNCHANGED lastResult
           ELSE IF IsError(e.pend.val)
           THEN /\ execs' = [execs EXCEPT ![i] =
                               [e EXCEPT !.st = "returned", !.pc = "done", !.ret = <<e.pend.val>>,
                                         !.arr = FALSE, !.flying = e.flying - 1]]
                /\ UNCHANGED lastResult
           ELSE /\ lastResult' = OkFrom(e.pend.val, TagUndef, NormId(i, e.idx))
                /\ execs' = [execs EXCEPT ![i] = [Fetch(e) EXCEPT !.flying = e.flying - 1]]
    /\ UNCHANGED <<given, initForm, producerCalls, variant, initial, transformers, lastRet>>
    /\ UNCHANGED <<tryVars, matchVars, resVars>>

\* -------------------------------------------------------------------- Try

\* The reserved tag of an aborted operation.
ABORT_OPERATION_NAME == "AbortOperation"

\* Exceptions: the one the try callback throws, the one the catch handler
\* throws, new AbortOperationError(), and the TypeError of reading a
\* property of undefined.
TryExc == [t |-> "exception", v |-> 1]
CatchExc == [t |-> "exception", v |-> 2]
AbortOperationError == [t |-> "exception", v |-> 3]
TypeErr == [t |-> "exception", v |-> 4]

\* The Results the callbacks of the tests return: okRes and errorRes.
okRes == Ok(Num(1), "SomeOk", 1)
errorRes == Error(Num(1), "SomeError", 2)

\* The arguments of Try and the settings of the logger:
\*   variant  "Sync" for Try.Sync, "Async" for Try.Async
\*   try      what the try callback does: return a raw value ("raw"), null
\*            ("null"), okRes ("ok") or errorRes ("error"), throw ("throw");
\*            for Try.Async the return is the value its promise is fulfilled
\*            with, and
\*              "reject"    is a promise that rejects,
\*              "onabort"   subscribes to the signal it holds in its closure
\*                          and rejects when the signal aborts (it is
\*                          fulfilled with 1 by a timer otherwise),
\*              "argabort"  does the same with the signal it expects as its
\*                          argument: (signal) => new Promise((res, rej) =>
\*                          { ...; signal.addEventListener('abort', rej) })
\*   catch    the catch handler: absent ("none"), or returning a raw value
\*            ("raw"), okRes ("ok") or errorRes ("error"), or throwing
\*            ("throw")
\*   signal   the AbortSignal: absent ("none"), not aborted at the call
\*            ("live"), aborted before the call ("aborted")
\*   LogOkResult, LogErrorResult, Engine   the settings of Logger (Engine:
\*            a function is installed)
TryInputs ==
    { i \in [variant : {"Sync", "Async"},
             try : {"raw", "null", "ok", "error", "throw", "reject", "onabort", "argabort"},
             catch : {"none", "raw", "ok", "error", "throw"},
             signal : {"none", "live", "aborted"},
             LogOkResult : BOOLEAN,
             LogErrorResult : BOOLEAN,
             Engine : BOOLEAN] :
        /\ i.variant = "Sync" => i.try \notin {"reject", "onabort", "argabort"} /\ i.signal = "none"
        /\ i.try \in {"onabort", "argabort"} => i.signal # "none" }

NoOutcome == [st |-> "none", val |-> NoValue]

\* The value the try callback returns (or its promise is fulfilled with).
TryValue(kind) ==
    CASE kind = "raw" -> Raw(Num(1))
      [] kind = "null" -> Raw(Null)
      [] kind = "ok" -> okRes
      [] kind = "error" -> errorRes
      [] kind = "onabort" -> Raw(Num(1))
      [] kind = "argabort" -> Raw(Num(1))

\* The reason the promise of the try callback rejects with.
TryReason(kind) == IF kind = "argabort" THEN TypeErr ELSE TryExc

\* const logAllowed = params?.log ?? setting; the Engine is handed the
\* Result when logging is allowed and an Engine is installed. log is the
\* log parameter of Ok / Error: "unset", "true" or "false".
EngineCalls(res, log, setting) ==
    IF (IF log = "unset" THEN setting ELSE log = "true") /\ tin.Engine
    THEN <<res>> ELSE << >>

\* The default handler with the Error it builds logged like any other.
CatchFuncLogDefaultLogged(kind, err) ==
    IF kind = "none"
    THEN EngineCalls(Error(err, TagUndef, 3), "unset", tin.LogErrorResult)
    ELSE << >>

\* What catchFunc(error) hands to the Engine: the default handler builds its
\* Error with log: false; the handlers given return Results built before.
CatchFuncLog(kind, err) ==
    IF kind = "none"
    THEN EngineCalls(Error(err, TagUndef, 3), "false", tin.LogErrorResult)
    ELSE << >>

\* catchFunc(error): the handler given, or the default
\* (data) => Result.Error({ data, log: false }).
CatchFunc(kind, err) ==
    CASE kind = "none" -> [thrown |-> FALSE, val |-> Error(err, TagUndef, 3)]
      [] kind = "raw" -> [thrown |-> FALSE, val |-> Raw(Num(2))]
      [] kind = "ok" -> [thrown |-> FALSE, val |-> okRes]
      [] kind = "error" -> [thrown |-> FALSE, val |-> errorRes]
      [] kind = "throw" -> [thrown |-> TRUE, val |-> Raw(CatchExc)]

\* The try block with every return of the callback put into a new Ok.
TryBranchRewraps(v) ==
    [st |-> "returned", val |-> OkFrom(v, TagUndef, 4)]

\* The try block after the callback has delivered v: a Result is returned as
\* it is, anything else through OkFrom.
TryBranch(v) ==
    [st |-> "returned", val |-> IF IsResult(v) THEN v ELSE OkFrom(v, TagUndef, 4)]

TryBranchLog(v) ==
    IF IsResult(v) THEN << >>
    ELSE EngineCalls(OkFrom(v, TagUndef, 4), "unset", tin.LogOkResult)

\* The catch block of Try.Sync for the caught error: the handler's return is
\* returned as it is when it is a Result, through ErrorFrom otherwise; an
\* exception of the handler leaves Try.
CatchBranch(kind, err) ==
    LET c == CatchFunc(kind, err)
    IN  IF c.thrown THEN [st |-> "thrown", val |-> c.val]
        ELSE [st |-> "returned",
              val |-> IF IsResult(c.val) THEN c.val ELSE ErrorFrom(c.val, TagUndef, 4)]

CatchBranchLog(kind, err) ==
    LET c == CatchFunc(kind, err)
    IN  CatchFuncLog(kind, err) \o
        (IF c.thrown \/ IsResult(c.val) THEN << >>
         ELSE EngineCalls(ErrorFrom(c.val, TagUndef, 4), "unset", tin.LogErrorResult))

\* const isAbortedOperation = error instanceof Error
\*                            && error.name === ABORT_OPERATION_NAME
isAbortedOperation(err) == err = AbortOperationError

\* The catch block of Try.Async: an error named AbortOperation becomes the
\* Error tagged AbortOperation without the handler; any other error goes
\* through the handler as in Try.Sync.
AsyncCatchBranch(kind, err) ==
    IF isAbortedOperation(err)
    THEN [st |-> "returned", val |-> ErrorFrom(Raw(err), ABORT_OPERATION_NAME, 4)]
    ELSE CatchBranch(kind, err)

AsyncCatchBranchLog(kind, err) ==
    IF isAbortedOperation(err)
    THEN EngineCalls(ErrorFrom(Raw(err), ABORT_OPERATION_NAME, 4), "unset", tin.LogErrorResult)
    ELSE CatchBranchLog(kind, err)

\* The arguments catchFunc is invoked with in the catch block of Try.Async.
AsyncCatchArgs(err) == IF isAbortedOperation(err) THEN << >> ELSE <<Raw(err)>>

\* The state before Try is called.
TryIdle ==
    /\ tpc = "idle"
    /\ tryPromise = "none"
    /\ aborted = (tin.signal = "aborted")
    /\ winner = "none"
    /\ tryCalls = 0
    /\ catchCalls = 0
    /\ tout = NoOutcome
    /\ tryArgs = << >>
    /\ catchArgs = << >>
    /\ abortAt = "never"
    /\ logged = << >>

\* Try.Sync(arg).
TrySync ==
    /\ tpc = "idle"
    /\ tin.variant = "Sync"
    /\ tpc' = "done"
    /\ tryCalls' = tryCalls + 1
    /\ tryArgs' = Append(tryArgs, << >>)
    /\ IF tin.try = "throw"
       THEN /\ catchCalls' = catchCalls + 1
            /\ catchArgs' = Append(catchArgs, Raw(TryExc))
            /\ tout' = CatchBranch(tin.catch, TryExc)
            /\ logged' = logged \o CatchBranchLog(tin.catch, TryExc)
       ELSE /\ catchCalls' = catchCalls
            /\ catchArgs' = catchArgs
            /\ tout' = TryBranch(TryValue(tin.try))
            /\ logged' = logged \o TryBranchLog(TryValue(tin.try))
    /\ UNCHANGED <<tin, tryPromise, aborted, winner, abortAt>>
    /\ UNCHANGED <<pipeVars, matchVars, resVars>>

\* The check of the signal before the call left out.
signalAbortedUnchecked == FALSE

\* if (signal?.aborted) ...
signalAborted == tin.signal # "none" /\ aborted

\* The argument list of tryFunc in Try.Async: const tryPromise = tryFunc().
TryFuncArgs == << >>

\* Try.Async(arg), up to its await: the check of signal.aborted, the call
\* of the try callback (a callback that throws is caught at once), the
\* subscription to the signal's abort event. A callback that reads its
\* argument gets a TypeError when there is none: its promise is rejected
\* from the start.
TryAsyncCall ==
    /\ tpc = "idle"
    /\ tin.variant = "Async"
    /\ IF signalAborted
       THEN /\ tpc' = "done"
            /\ tout' = [st |-> "returned",
                        val |-> Error(AbortOperationError, ABORT_OPERATION_NAME, 4)]
            /\ logged' = logged \o EngineCalls(Error(AbortOperationError, ABORT_OPERATION_NAME, 4),
                                               "unset", tin.LogErrorResult)
            /\ UNCHANGED <<tryPromise, tryCalls, catchCalls, tryArgs, catchArgs, winner>>
       ELSE IF tin.try = "throw"
       THEN /\ tpc' = "done"
            /\ tryCalls' = tryCalls + 1
            /\ tryArgs' = Append(tryArgs, TryFuncArgs)
            /\ catchCalls' = catchCalls + 1
            /\ catchArgs' = catchArgs \o AsyncCatchArgs(TryExc)
            /\ tout' = AsyncCatchBranch(tin.catch, TryExc)
            /\ logged' = logged \o AsyncCatchBranchLog(tin.catch, TryExc)
            /\ UNCHANGED <<tryPromise, winner>>
       ELSE /\ tpc' = "racing"
            /\ tryCalls' = tryCalls + 1
            /\ tryArgs' = Append(tryArgs, TryFuncArgs)
            /\ IF tin.try = "argabort" /\ TryFuncArgs = << >>
               THEN tryPromise' = "rejected" /\ winner' = "try"
               ELSE tryPromise' = "pending" /\ winner' = winner
            /\ UNCHANGED <<catchCalls, catchArgs, tout, logged>>
    /\ UNCHANGED <<tin, aborted, abortAt>>
    /\ UNCHANGED <<pipeVars, matchVars, resVars>>

\* The promise of the try callback settles; it wins the race unless the
\* abort promise has already rejected.
TryPromiseSettles ==
    /\ tryPromise = "pending"
    /\ tryPromise' = IF tin.try = "reject" THEN "rejected" ELSE "fulfilled"
    /\ winner' = IF winner = "none" THEN "try" ELSE winner
    /\ UNCHANGED <<tin, tpc, aborted, tryCalls, catchCalls, tout,
                   tryArgs, catchArgs, abortAt, logged>>
    /\ UNCHANGED <<pipeVars, matchVars, resVars>>

\* controller.abort() with the abort taking the race even after the try
\* promise has settled.
SignalAbortOverrides ==
    /\ tin.signal = "live"
    /\ ~aborted
    /\ aborted' = TRUE
    /\ abortAt' = CASE tpc = "idle" -> "idle"
                    [] tpc = "racing" /\ tryPromise = "pending" -> "pending"
                    [] tpc = "racing" /\ tryPromise # "pending" -> "settled"
                    [] tpc = "done" -> "done"
    /\ winner' = IF tpc = "racing" THEN "abort" ELSE winner
    /\ UNCHANGED <<tin, tpc, tryPromise, tryCalls, catchCalls, tout, tryArgs, catchArgs, logged>>
    /\ UNCHANGED <<pipeVars, matchVars, resVars>>

\* controller.abort(): the signal becomes aborted and its listeners run in
\* the order they subscribed. The listener of a try callback that observes
\* the signal subscribed during tryFunc(), before the listener of Try.Async:
\* the try promise rejects first and wins the race. Otherwise the listener
\* of Try.Async rejects the abort promise, which wins the race unless the
\* try promise has already settled.
SignalAbort ==
    /\ tin.signal = "live"
    /\ ~aborted
    /\ aborted' = TRUE
    /\ abortAt' = CASE tpc = "idle" -> "idle"
                    [] tpc = "racing" /\ tryPromise = "pending" -> "pending"
                    [] tpc = "racing" /\ tryPromise # "pending" -> "settled"
                    [] tpc = "done" -> "done"
    /\ IF tpc = "racing" /\ tryPromise = "pending"
          /\ (tin.try = "onabort" \/ (tin.try = "argabort" /\ TryFuncArgs # << >>))
       THEN tryPromise' = "rejected" /\ winner' = "try"
       ELSE /\ winner' = IF tpc = "racing" /\ winner = "none" THEN "abort" ELSE winner
            /\ UNCHANGED tryPromise
    /\ UNCHANGED <<tin, tpc, tryCalls, catchCalls, tout, tryArgs, catchArgs, logged>>
    /\ UNCHANGED <<pipeVars, matchVars, resVars>>

\* Try.Async resumes from its await with what settled first.
TryAsyncResume ==
    /\ tpc = "racing"
    /\ winner # "none"
    /\ tpc' = "done"
    /\ IF winner = "abort"
       THEN /\ tout' = AsyncCatchBranch(tin.catch, AbortOperationError)
            /\ logged' = logged \o AsyncCatchBranchLog(tin.catch, AbortOperationError)
            /\ UNCHANGED <<catchCalls, catchArgs>>
       ELSE IF tryPromise = "rejected"
       THEN /\ tout' = AsyncCatchBranch(tin.catch, TryReason(tin.try))
            /\ logged' = logged \o AsyncCatchBranchLog(tin.catch, TryReason(tin.try))
            /\ catchCalls' = catchCalls + 1
            /\ catchArgs' = catchArgs \o AsyncCatchArgs(TryReason(tin.try))
       ELSE /\ tout' = TryBranch(TryValue(tin.try))
            /\ logged' = logged \o TryBranchLog(TryValue(tin.try))
            /\ UNCHANGED <<catchCalls, catchArgs>>
    /\ UNCHANGED <<tin, tryPromise, aborted, winner, tryCalls, tryArgs, abortAt>>
    /\ UNCHANGED <<pipeVars, matchVars, resVars>>

\* ------------------------------------------------------------------ Match

\* The Results of the tests.
okRes0 == Ok(Undef, TagUndef, 1)
okRes1 == Ok(Undef, "Success", 2)
okRes2 == Ok(Num(201), "Created", 3)
errorRes0 == Error(Undef, TagUndef, 4)
errorRes1 == Error(Undef, "NotFound", 5)
errorRes2 == Error(Num(500), "InternalErrorTag", 6)

MatchResults == {okRes0, okRes1, okRes2, errorRes0, errorRes1, errorRes2}

\* The keys a matcher may hold, and what the handler under a key does:
\* return a raw value ("raw"), null ("null"), a new Ok ("ok"), a new Error
\* ("error") or its argument ("same"), or throw ("throw").
MatchKeys == {"ok", "error", "ok:Success", "error:NotFound"}

HandlerKinds == {"raw", "null", "ok", "error", "same", "throw"}

Matchers == [MatchKeys -> HandlerKinds \cup {"absent"}]

\* matcher[key]: "absent" for undefined.
Lookup(m, key) == IF key \in DOMAIN m THEN m[key] ELSE "absent"

\* const matchKey = result.tag ? `${result.status}:${result.tag}`
\*                             : `${result.status}`
matchKey(res) ==
    IF res.tag \notin {TagNull, ""} THEN res.status \o ":" \o res.tag ELSE res.status

\* The selection with the bare status key looked up first.
SelectKeyStatusFirst(res, m) ==
    IF Lookup(m, res.status) # "absent" THEN res.status
    ELSE IF Lookup(m, matchKey(res)) # "absent" THEN matchKey(res)
    ELSE ""

\* const handler = matcher[matchKey] || matcher[result.status]: the key of
\* the handler selected, "" when there is none.
SelectKey(res, m) ==
    IF Lookup(m, matchKey(res)) # "absent" THEN matchKey(res)
    ELSE IF Lookup(m, res.status) # "absent" THEN res.status
    ELSE ""

\* What a handler does when invoked with arg.
HandlerApply(kind, arg) ==
    CASE kind = "raw" -> [thrown |-> FALSE, val |-> Raw(Num(1))]
      [] kind = "null" -> [thrown |-> FALSE, val |-> Raw(Null)]
      [] kind = "ok" -> [thrown |-> FALSE, val |-> Ok(Num(7), "Handled", 7)]
      [] kind = "error" -> [thrown |-> FALSE, val |-> Error(Num(8), "Refused", 8)]
      [] kind = "same" -> [thrown |-> FALSE, val |-> arg]
      [] kind = "throw" -> [thrown |-> TRUE, val |-> Raw(Exc)]

\* The return without a handler, as a copy of the Result.
NoHandlerCopies(res) == [res EXCEPT !.id = 9]

\* if (!handler) return result
NoHandler(res) == res

\* The state before Match is called.
MatchIdle ==
    /\ mpc = "idle"
    /\ mcalls = << >>
    /\ mout = NoOutcome

\* Match(result, matcher).
MatchCall ==
    /\ mpc = "idle"
    /\ mpc' = "done"
    /\ LET key == SelectKey(mres, matcher)
           h == HandlerApply(matcher[key], mres)
       IN  IF key = ""
           THEN /\ mcalls' = mcalls
                /\ mout' = [st |-> "returned", val |-> NoHandler(mres)]
           ELSE /\ mcalls' = Append(mcalls, [key |-> key, args |-> <<mres>>])
                /\ mout' = IF h.thrown
                           THEN [st |-> "thrown", val |-> h.val]
                           ELSE [st |-> "returned",
                                 val |-> OkFromUnlessError(h.val, TagUndef, 9)]
    /\ UNCHANGED <<mres, matcher>>
    /\ UNCHANGED <<pipeVars, tryVars, resVars>>

\* ------------------------------------------------------- Result functions

\* Most functions of Result called in a row.
MaxOps == 2

Func == [t |-> "function", v |-> 0]

\* The data and tag parameters given to Ok and Error, the tag argument
\* given to the From functions (Undef, TagUndef: omitted).
DataArgs == {Undef, Null, Num(0), Num(1), EmptyStr, False}

TagArgs == {TagUndef, TagNull, "", "T1", "T2"}

\* The values a caller holds that no function of Result built: primitives,
\* a function, a plain object, look-alikes of an Ok and of an Error.
GivenValues ==
    {Raw(d) : d \in DataArgs} \cup
    {Raw(Func), Raw(Obj), Fake("ok", TagNull), Fake("error", "T1")}

NoOp == [op |-> "none", data |-> Undef, tag |-> TagUndef]

\* The log parameter of Ok and Error: omitted ("unset"), true, false.
LogArgs == {"unset", "true", "false"}

\* Logger.Engine: null, or a function that returns a promise that resolves
\* ("resolves") or rejects ("rejects"), or that throws ("throws").
EngineKinds == {"null", "resolves", "rejects", "throws"}

Loggers == [LogOkResult : BOOLEAN, LogErrorResult : BOOLEAN, Engine : EngineKinds]

\* The logger as the module is loaded.
DefaultLogger == [LogOkResult |-> FALSE, LogErrorResult |-> FALSE, Engine |-> "null"]

\* A construction by Ok (sign "ok") or Error (sign "error"): the log
\* parameter it was given and the Result it built; sign "none": the
\* function built nothing.
NoCons == [sign |-> "none", log |-> "unset", res |-> NoValue]

\* The state before any function of Result is called.
ResIdle(v) ==
    /\ rv = v
    /\ rin = v
    /\ rop = NoOp
    /\ rpath = "given"
    /\ rn = 0
    /\ rvlog = "unset"
    /\ rcons = NoCons
    /\ rcalls = << >>
    /\ rout = "none"

\* The functions that convert the value at hand.
FromOps == {"OkFrom", "ErrorFrom", "OkFromUnlessError", "ErrorFromUnlessOk"}

FromApply(op, v, tag, id) ==
    CASE op = "OkFrom" -> OkFrom(v, tag, id)
      [] op = "ErrorFrom" -> ErrorFrom(v, tag, id)
      [] op = "OkFromUnlessError" -> OkFromUnlessError(v, tag, id)
      [] op = "ErrorFromUnlessOk" -> ErrorFromUnlessOk(v, tag, id)

\* logAllowed read with || in place of ??: a log parameter of false falls
\* back to the setting.
logAllowedOr(log, setting) == log = "true" \/ setting

\* const logAllowed = params?.log ?? _Logger.LogOkResult (LogErrorResult in
\* Error).
logAllowed(log, setting) == IF log = "unset" THEN setting ELSE log = "true"

\* The setting Ok (sign "ok") and Error (sign "error") fall back to.
Setting(sign) == IF sign = "ok" THEN rlogger.LogOkResult ELSE rlogger.LogErrorResult

\* if (logAllowed && _Logger.Engine) _Logger.Engine(result): the Results
\* handed to the Engine by the construction of res.
LogResult(sign, log, res) ==
    IF logAllowed(log, Setting(sign)) /\ rlogger.Engine # "null" THEN <<res>> ELSE << >>

\* How the construction ends: the call of the Engine is not guarded, so an
\* Engine that throws ends Ok / Error with its exception; the promise an
\* Engine returns is dropped, whether it resolves or rejects.
ConsOutcome(calls) ==
    IF calls # << >> /\ rlogger.Engine = "throws" THEN "thrown" ELSE "returned"

\* The log parameter the From functions hand to Ok / Error when they build
\* from v: an Ok spread into the parameters of Ok (an Error into those of
\* Error) brings its log property along.
FromLog(op, v, vlog) ==
    IF op \in {"OkFrom", "OkFromUnlessError"}
    THEN (IF IsOk(v) THEN vlog ELSE "unset")
    ELSE (IF IsError(v) THEN vlog ELSE "unset")

\* The function hands back its argument and builds nothing.
PassesThrough(op, v) ==
    \/ op = "OkFromUnlessError" /\ IsError(v)
    \/ op = "ErrorFromUnlessOk" /\ IsOk(v)

\* The call of a function of Result that builds res with the log parameter
\* log: when the Engine throws, the exception leaves the function and the
\* caller is left with the value it held.
Built(sign, log, res, op) ==
    LET calls == LogResult(sign, log, res)
    IN  /\ rcons' = [sign |-> sign, log |-> log, res |-> res]
        /\ rcalls' = calls
        /\ rout' = ConsOutcome(calls)
        /\ IF ConsOutcome(calls) = "thrown"
           THEN UNCHANGED <<rv, rin, rop, rpath, rn, rvlog>>
           ELSE /\ rv' = res
                /\ rin' = rv
                /\ rop' = op
                /\ rpath' = sign
                /\ rn' = rn + 1
                /\ rvlog' = log
        /\ UNCHANGED rlogger

\* Result.Ok({ data, tag, log }).
ResOk(d, t, l) ==
    /\ rn < MaxOps
    /\ rout # "thrown"
    /\ Built("ok", l, Ok(d, t, rn + 1), [op |-> "Ok", data |-> d, tag |-> t])
    /\ UNCHANGED <<pipeVars, tryVars, matchVars>>

\* Result.Error({ data, tag, log }).
ResError(d, t, l) ==
    /\ rn < MaxOps
    /\ rout # "thrown"
    /\ Built("error", l, Error(d, t, rn + 1), [op |-> "Error", data |-> d, tag |-> t])
    /\ UNCHANGED <<pipeVars, tryVars, matchVars>>

\* Result.OkFrom(v, tag), Result.ErrorFrom(v, tag),
\* Result.OkFromUnlessError(v, tag), Result.ErrorFromUnlessOk(v, tag) on the
\* value at hand; a value handed back as it is keeps the way it was built.
ResFrom(op, t) ==
    /\ rn < MaxOps
    /\ rout # "thrown"
    /\ IF PassesThrough(op, rv)
       THEN /\ rin' = rv
            /\ rop' = [op |-> op, data |-> Undef, tag |-> t]
            /\ rn' = rn + 1
            /\ rcons' = NoCons
            /\ rcalls' = << >>
            /\ rout' = "returned"
            /\ UNCHANGED <<rv, rpath, rvlog, rlogger>>
       ELSE Built(IF op \in {"OkFrom", "OkFromUnlessError"} THEN "ok" ELSE "error",
                  FromLog(op, rv, rvlog), FromApply(op, rv, t, rn + 1),
                  [op |-> op, data |-> Undef, tag |-> t])
    /\ UNCHANGED <<pipeVars, tryVars, matchVars>>

\* ----------------------------------------------------------- specifications

\* The components a specification leaves unused.
PipeUnused ==
    /\ variant = "Sync"
    /\ initial = Ok(Null, TagUndef, 2)
    /\ lastResult = initial
    /\ transformers = << >>
    /\ execs = << >>
    /\ lastRet = "none"
    /\ given = Raw(Null)
    /\ initForm = "value"
    /\ producerCalls = 0

TryUnused ==
    /\ tin = [variant |-> "Sync", try |-> "raw", catch |-> "none", signal |-> "none",
              LogOkResult |-> FALSE, LogErrorResult |-> FALSE, Engine |-> FALSE]
    /\ TryIdle

MatchUnused ==
    /\ mres = okRes0
    /\ matcher = [key \in MatchKeys |-> "absent"]
    /\ MatchIdle

ResUnused ==
    /\ rlogger = DefaultLogger
    /\ ResIdle(Raw(Null))

\* The pipe: Try, Match and the functions of Result are not called.
Init ==
    /\ PipeInit
    /\ TryUnused
    /\ MatchUnused
    /\ ResUnused

Next ==
    \/ \E kind \in StepKinds : Register(kind)
    \/ SyncCall
    \/ SyncIterate
    \/ AsyncCall
    \/ AsyncIterate
    \/ \E i \in 1..2 : AsyncInvoke(i)
    \/ \E i \in 1..2 : AsyncSettle(i)

Spec == Init /\ [][Next]_vars

\* Try: one call of Try.Sync or Try.Async, on any argument; no pipe is used.
InitTry ==
    /\ PipeUnused
    /\ tin \in TryInputs
    /\ TryIdle
    /\ MatchUnused
    /\ ResUnused

NextTry ==
    \/ TrySync
    \/ TryAsyncCall
    \/ TryPromiseSettles
    \/ SignalAbort
    \/ TryAsyncResume

SpecTry == InitTry /\ [][NextTry]_vars

\* Match: one call, on any of the Results with any matcher.
InitMatch ==
    /\ PipeUnused
    /\ TryUnused
    /\ mres \in MatchResults
    /\ matcher \in Matchers
    /\ MatchIdle
    /\ ResUnused

NextMatch == MatchCall

SpecMatch == InitMatch /\ [][NextMatch]_vars

\* The functions of Result: up to MaxOps calls in a row, starting from any
\* value the caller holds.
InitResult ==
    /\ PipeUnused
    /\ TryUnused
    /\ MatchUnused
    /\ rlogger = DefaultLogger
    /\ \E v \in GivenValues : ResIdle(v)

NextResult ==
    \/ \E d \in DataArgs, t \in TagArgs, l \in LogArgs : ResOk(d, t, l)
    \/ \E d \in DataArgs, t \in TagArgs, l \in LogArgs : ResError(d, t, l)
    \/ \E op \in FromOps, t \in TagArgs : ResFrom(op, t)

SpecResult == InitResult /\ [][NextResult]_vars

\* The functions of Result under any settings of the logger: the flags and
\* the Engine are set before the first call; the calls build Results with
\* and without data and tag, with any log parameter.
LoggedDataArgs == {Undef, Num(1)}

LoggedTagArgs == {TagUndef, "T1"}

InitLogger ==
    /\ PipeUnused
    /\ TryUnused
    /\ MatchUnused
    /\ rlogger \in Loggers
    /\ \E v \in GivenValues : ResIdle(v)

NextLogger ==
    \/ \E d \in LoggedDataArgs, t \in LoggedTagArgs, l \in LogArgs : ResOk(d, t, l)
    \/ \E d \in LoggedDataArgs, t \in LoggedTagArgs, l \in LogArgs : ResError(d, t, l)
    \/ \E op \in FromOps, t \in LoggedTagArgs : ResFrom(op, t)

SpecLogger == InitLogger /\ [][NextLogger]_vars

\* ------------------------------------------------------- claims on Pipe

\* A Result r is the normalization of a step's return v: an Ok carrying v's
\* data, with v's tag when v is a Result and no tag when v is a raw value.
Normalized(v, r) ==
    /\ IsOk(r)
    /\ r.status = "ok"
    /\ r.data = v.data
    /\ r.tag = (IF IsResult(v) THEN v.tag ELSE TagNull)

ReturnsError(x) == ~x.out.thrown /\ IsError(x.out.val)

NoErrorIn(e) == \A j \in 1..Len(e.inv) : ~ReturnsError(e.inv[j])

\* What one zero-argument call returns on a pipe built from `initial` with
\* the steps ts and never executed before.
Solo(ts) == RunLoop(ts, 1, initial, 1, << >>)

\* C1: a zero-argument call (Sync or Async) invokes the registered steps in
\* registration order; when a step returns an Error, no later step is
\* invoked in that call and the call returns that very Error object.
C1_ErrorStopsCall ==
    \A n \in 1..Len(execs) :
        LET e == execs[n] IN
        e.kind = "call" =>
            /\ \A j \in 1..Len(e.inv) : e.inv[j].idx = j /\ e.inv[j].kind = transformers[j]
            /\ \A j \in 1..Len(e.inv) :
                   ReturnsError(e.inv[j]) =>
                       /\ j = Len(e.inv)
                       /\ e.st # "thrown"
                       /\ e.st = "returned" => ~e.arr /\ e.ret = <<e.inv[j].out.val>>

\* C1 witness: an Async call has returned the Error of a step that is not
\* the last registered one.
C1_Witness ==
    \E n \in 1..Len(execs) :
        LET e == execs[n] IN
        /\ variant = "Async"
        /\ e.kind = "call"
        /\ e.st = "returned"
        /\ Len(e.inv) >= 1
        /\ Len(e.inv) < Len(e.steps0)
        /\ ReturnsError(e.inv[Len(e.inv)])
        /\ e.ret = <<e.inv[Len(e.inv)].out.val>>

\* C2 (as claimed): every zero-argument call on the same pipe, with the same
\* steps registered, returns a result equal in status, data and tag to the
\* result of the first call.
C2_ReExecutable ==
    \A n \in 2..Len(execs) :
        LET a == execs[1]
            b == execs[n]
        IN  ( /\ a.kind = "call" /\ b.kind = "call"
              /\ a.st = "returned" /\ b.st = "returned"
              /\ a.alone /\ b.alone
              /\ a.steps0 = b.steps0 )
            => SameSDT(b.ret[1], a.ret[1])

\* C3 (as claimed): an iteration in which a step returned an Error has
\* produced a sequence whose last element is that Error.
C3_IterationEndsAtError ==
    \A n \in 1..Len(execs) :
        LET e == execs[n] IN
        ( /\ e.kind = "iter"
          /\ e.st = "returned"
          /\ Len(e.inv) >= 1
          /\ ReturnsError(e.inv[Len(e.inv)]) )
        => /\ Len(e.yielded) >= 1
           /\ e.yielded[Len(e.yielded)] = e.inv[Len(e.inv)].out.val

\* C4 (as claimed): the iteration of a fresh pipe whose n steps all return
\* non-Error values has produced n + 1 Results: the initial Result, then the
\* normalized return of each step in order.
C4_IterationYieldsAll ==
    ( /\ Len(execs) >= 1
      /\ execs[1].kind = "iter"
      /\ execs[1].st = "returned"
      /\ execs[1].alone
      /\ IsOk(initial)
      /\ NoErrorIn(execs[1]) )
    => LET e == execs[1] IN
       /\ Len(e.yielded) = Len(e.steps0) + 1
       /\ SameSDT(e.yielded[1], initial)
       /\ \A j \in 1..Len(e.inv) : Normalized(e.inv[j].out.val, e.yielded[j + 1])

\* C5 (as claimed): a call made after the pipe was iterated to exhaustion
\* returns what a call on the same pipe never iterated returns, and an
\* iteration made after a call hands the original initial Result to step 1.
C5_IndependentConsumers ==
    ( /\ Len(execs) >= 2
      /\ execs[1].st # "running" /\ execs[2].st = "returned"
      /\ execs[1].alone /\ execs[2].alone
      /\ execs[1].steps0 = execs[2].steps0 )
    => /\ (execs[1].kind = "iter" /\ execs[2].kind = "call" /\ Solo(execs[2].steps0).st = "returned")
            => SameSDT(execs[2].ret[1], Solo(execs[2].steps0).val)
       /\ (execs[1].kind = "call" /\ execs[2].kind = "iter" /\ Len(execs[2].inv) >= 1)
            => SameSDT(execs[2].inv[1].arg, initial)

\* C6 (as claimed): calling the pipe with a function returns the callable
\* pipe object itself, for Pipe.Sync and Pipe.Async.
C6_RegisterReturnsPipe == lastRet \in {"none", "pipe"}

C8_ThrowPropagates ==
    \A n \in 1..Len(execs) :
        LET e == execs[n] IN
        e.kind = "call" =>
            /\ \A j \in 1..Len(e.inv) :
                   e.inv[j].out.thrown =>
                       /\ j = Len(e.inv)
                       /\ e.st # "returned"
                       /\ e.st = "thrown" => e.ret = <<e.inv[j].out.val>> /\ ~IsResult(e.ret[1])
            /\ e.st = "thrown" => Len(e.inv) >= 1 /\ e.inv[Len(e.inv)].out.thrown

\* C8 witness: an Async call was rejected by the rejecting promise of a step
\* that is not the last registered one.
C8_Witness ==
    \E n \in 1..Len(execs) :
        LET e == execs[n] IN
        /\ variant = "Async"
        /\ e.kind = "call"
        /\ e.st = "thrown"
        /\ Len(e.inv) >= 1
        /\ Len(e.inv) < Len(e.steps0)
        /\ e.inv[Len(e.inv)].kind = "reject"

\* C9 (as claimed): of two zero-argument calls on one Pipe.Async, the second
\* started while a step of the first was still awaited, each resolves to
\* what a single call on that pipe resolves to.
C9_OverlapIndependent ==
    ( /\ variant = "Async"
      /\ Len(execs) = 2
      /\ execs[1].kind = "call" /\ execs[2].kind = "call"
      /\ execs[1].st = "returned" /\ execs[2].st = "returned"
      /\ ~execs[1].alone /\ ~execs[2].alone
      /\ execs[2].midStep
      /\ execs[1].steps0 = execs[2].steps0
      /\ Solo(execs[1].steps0).st = "returned" )
    => /\ SameSDT(execs[1].ret[1], Solo(execs[1].steps0).val)
       /\ SameSDT(execs[2].ret[1], Solo(execs[2].steps0).val)

\* -------------------------------------------------------- claims on Try

\* C10 (as claimed): Try.Sync and Try.Async always end by returning (the
\* Async promise fulfilled with) a Result; they never throw or reject.
C10_TryAlwaysResult ==
    tpc = "done" => tout.st = "returned" /\ IsResult(tout.val)

\* The try block ran to its end: the callback returned (its promise was
\* fulfilled and won the race).
TryDelivered ==
    /\ tpc = "done"
    /\ IF tin.variant = "Sync" THEN tin.try # "throw"
       ELSE winner = "try" /\ tryPromise = "fulfilled"

\* The catch block ran for an error of the try callback: it threw (its
\* promise rejected and won the race).
TryFailed ==
    /\ tpc = "done"
    /\ \/ tin.try = "throw" /\ tryCalls = 1
       \/ tin.variant = "Async" /\ winner = "try" /\ tryPromise = "rejected"

\* The value the try callback threw (its promise rejected with).
TryThrown == IF tin.try = "throw" THEN TryExc ELSE TryReason(tin.try)

\* C11 (as claimed): when the signal aborts while Try.Async is suspended and
\* the try promise is pending, Try.Async resolves to the Error tagged
\* AbortOperation and the catch handler is not invoked, also when the try
\* promise rejects in reaction to that abort.
C11_AbortBeatsCatch ==
    (abortAt = "pending" /\ tpc = "done")
    => /\ tout.st = "returned"
       /\ IsError(tout.val)
       /\ tout.val.tag = ABORT_OPERATION_NAME
       /\ catchArgs = << >>

\* C12: when the signal is aborted before Try.Async is called, Try.Async
\* resolves to an Error tagged AbortOperation, and neither the try callback
\* nor the catch handler is invoked, then or later.
C12_PreAbortedSkipsCallbacks ==
    ( /\ tin.variant = "Async"
      /\ tin.signal = "aborted" \/ abortAt = "idle"
      /\ tpc # "idle" )
    => /\ tpc = "done"
       /\ tout.st = "returned"
       /\ IsError(tout.val)
       /\ tout.val.tag = ABORT_OPERATION_NAME
       /\ tout.val.data = AbortOperationError
       /\ tryCalls = 0 /\ tryArgs = << >>
       /\ catchCalls = 0 /\ catchArgs = << >>

\* C12 witness: a signal aborted by its controller before the call, with a
\* try callback that would throw and a catch handler given; Try.Async has
\* resolved.
C12_Witness ==
    /\ tin.variant = "Async"
    /\ tin.signal = "live"
    /\ abortAt = "idle"
    /\ tin.try = "throw"
    /\ tin.catch = "error"
    /\ tpc = "done"
    /\ tout.val.tag = ABORT_OPERATION_NAME

\* C13 (as claimed): Try.Async given a signal invokes the try callback with
\* that signal as its argument.
C13_TryGetsSignal ==
    (tin.variant = "Async" /\ tin.signal # "none")
    => \A j \in 1..Len(tryArgs) : tryArgs[j] = <<"signal">>

\* C14: the return of the try callback (the value its promise is fulfilled
\* with) is normalized without double wrapping: a Result is the outcome as
\* the same object; any other value v gives an Ok with data v and no tag.
C14_TryReturnNormalized ==
    TryDelivered
    => LET v == TryValue(tin.try) IN
       /\ tout.st = "returned"
       /\ IsResult(v) => tout.val = v
       /\ ~IsResult(v) => /\ IsOk(tout.val) /\ ~IsError(tout.val)
                          /\ tout.val.status = "ok"
                          /\ tout.val.data = v.data
                          /\ tout.val.tag = TagNull

\* C14 witness: Try.Async, racing a live signal, has resolved to the very
\* Error its try callback's promise was fulfilled with.
C14_Witness ==
    /\ TryDelivered
    /\ tin.variant = "Async"
    /\ tin.signal = "live"
    /\ tin.try = "error"
    /\ tout.val = errorRes

C16_MatchSelectsBySpecificity ==
    mpc = "done"
    => LET tagged == mres.tag # TagNull
           ckey == mres.status \o ":" \o mres.tag
           hasC == tagged /\ ckey \in MatchKeys /\ matcher[ckey] # "absent"
           hasS == matcher[mres.status] # "absent"
       IN  /\ Len(mcalls) <= 1
           /\ hasC => mcalls = <<[key |-> ckey, args |-> <<mres>>]>>
           /\ (~hasC /\ hasS) => mcalls = <<[key |-> mres.status, args |-> <<mres>>]>>
           /\ (~hasC /\ ~hasS) => mcalls = << >>

\* C16 witness: the matcher holds "ok:Success" and "ok", the Result is the
\* Ok tagged Success, and the handler under "ok:Success" was the one invoked.
C16_Witness ==
    /\ mpc = "done"
    /\ mres = okRes1
    /\ matcher["ok:Success"] # "absent"
    /\ matcher["ok"] # "absent"
    /\ Len(mcalls) = 1
    /\ mcalls[1].key = "ok:Success"

\* C17: when the matcher has neither the compound key nor the bare status
\* key of the Result, no handler is invoked and Match returns the Result
\* itself, the same object, for an Ok as for an Error.
C17_NoMatchPassesThrough ==
    ( /\ mpc = "done"
      /\ Lookup(matcher, mres.status \o ":" \o mres.tag) = "absent"
      /\ matcher[mres.status] = "absent" )
    => /\ mcalls = << >>
       /\ mout = [st |-> "returned", val |-> mres]

\* C17 witness: an Error tagged InternalErrorTag given to a matcher that
\* holds handlers for Ok only came back as it is.
C17_Witness ==
    /\ mpc = "done"
    /\ mres = errorRes2
    /\ matcher["ok"] # "absent"
    /\ matcher["error"] = "absent"
    /\ mcalls = << >>
    /\ mout.val = errorRes2

StoredData(d) == IF d = Undef THEN Null ELSE d

StoredTag(t) == IF t \in {TagUndef, TagNull, ""} THEN TagNull ELSE t

PayloadOf(v) == v.data

FromTarget(op, r) ==
    IF op = "OkFrom" THEN IsOk(r) /\ r.status = "ok"
    ELSE IsError(r) /\ r.status = "error"

\* C21 as claimed: for every non-Result v, OkFrom(v) is an Ok and ErrorFrom(v)
\* an Error with data === v; for every Result r, OkFrom(r).data === r.data and
\* ErrorFrom(r).data === r.data, and the Result returned is a new object.
C21_PayloadPreserved ==
    (rn > 0 /\ rop.op \in {"OkFrom", "ErrorFrom"})
    => /\ FromTarget(rop.op, rv)
       /\ rv.data = PayloadOf(rin)
       /\ IsResult(rin) => rv.id # rin.id

\* C21 (amended): as above for every non-Result v other than undefined and
\* for every Result r; OkFrom(undefined) and ErrorFrom(undefined) hold data
\* null.
C21_PayloadPreservedDefined ==
    (rn > 0 /\ rop.op \in {"OkFrom", "ErrorFrom"})
    => /\ FromTarget(rop.op, rv)
       /\ rv.data = (IF ~IsResult(rin) /\ rin.data = Undef THEN Null ELSE PayloadOf(rin))
       /\ IsResult(rin) => rv.id # rin.id

\* C21 witness: OkFrom was given an Error holding 0 and returned another
\* object, an Ok holding 0.
C21_Witness ==
    /\ rn = 2
    /\ rop.op = "OkFrom"
    /\ IsError(rin) /\ ~IsOk(rin)
    /\ rin.data = Num(0)
    /\ IsOk(rv) /\ ~IsError(rv)
    /\ rv.data = Num(0)
    /\ rv.id # rin.id

\* ------------------------------------------------ further claims on Try

\* C26: when the signal is aborted after the promise of the try callback
\* has settled, Try.Async ends as that promise decides: fulfilled, with its
\* value normalized and no call of the catch handler; rejected, with the
\* catch handler called once on the reason and deciding the outcome; never
\* with the Error tagged AbortOperation.
C26_LateAbortIgnored ==
    (tin.variant = "Async" /\ tpc = "done" /\ abortAt = "settled")
    => /\ tryPromise = "fulfilled" =>
             /\ catchCalls = 0
             /\ tout.st = "returned"
             /\ IsResult(TryValue(tin.try)) => tout.val = TryValue(tin.try)
             /\ ~IsResult(TryValue(tin.try)) =>
                   /\ IsOk(tout.val)
                   /\ tout.val.data = TryValue(tin.try).data
       /\ tryPromise = "rejected" =>
             /\ catchCalls = 1
             /\ catchArgs = <<Raw(TryReason(tin.try))>>
             /\ tout = CatchBranch(tin.catch, TryReason(tin.try))
       /\ tout.st = "returned" =>
             /\ tout.val.tag # ABORT_OPERATION_NAME
             /\ tout.val.data # AbortOperationError

\* C26 witness: the promise was fulfilled with 1, then the signal aborted,
\* and Try.Async resolved to Ok(1).
C26_Witness ==
    /\ tin.variant = "Async"
    /\ tin.try = "raw"
    /\ tpc = "done"
    /\ abortAt = "settled"
    /\ aborted
    /\ tryPromise = "fulfilled"
    /\ tout.st = "returned"
    /\ IsOk(tout.val)
    /\ tout.val.data = Num(1)

\* ----------------------------------------------- further claims on Pipe

\* C23: in every execution of a Sync or Async pipe, call or iteration, the
\* argument of each step invoked is an Ok; when the normalized initial value
\* is an Error, every execution returns at once, a zero-argument call
\* returning that Error, and no step is invoked.
C23_StepsGetOk ==
    \A i \in 1..Len(execs) :
        /\ \A j \in 1..Len(execs[i].inv) :
              /\ IsOk(execs[i].inv[j].arg)
              /\ execs[i].inv[j].arg.status = "ok"
        /\ initial.status = "error" =>
              /\ execs[i].inv = << >>
              /\ execs[i].st = "returned"
              /\ execs[i].ret = <<initial>>

\* C23 witness: a pipe built on an Error has a step registered; its
\* zero-argument call returned the Error and invoked nothing.
C23_Witness ==
    /\ initial.status = "error"
    /\ Len(transformers) >= 1
    /\ \E i \in 1..Len(execs) :
          /\ execs[i].kind = "call"
          /\ execs[i].steps0 # << >>
          /\ execs[i].st = "returned"
          /\ execs[i].ret = <<initial>>
          /\ execs[i].inv = << >>

\* Execution e has invoked its steps one after the other: in registration
\* order, each one after the return of the one before was settled and found
\* to be no Error, and at most the last of them is still awaited.
OneAtATime(e) ==
    /\ e.flying <= 1
    /\ \A j \in 1..Len(e.inv) : e.inv[j].idx = j /\ e.inv[j].kind = transformers[j]
    /\ \A j \in 1..(Len(e.inv) - 1) :
          ~e.inv[j].out.thrown /\ ~IsError(e.inv[j].out.val)

\* C24: in one execution of a Pipe.Async, a step is invoked only when no
\* step of that execution is awaited (the promise of the step before has
\* settled and its value was checked for Error); two steps of one execution
\* are never in flight together.
C24_StepsSequential ==
    [][\A i \in 1..Len(execs) :
          /\ OneAtATime(execs'[i])
          /\ Len(execs'[i].inv) > Len(execs[i].inv) => execs[i].flying = 0]_vars

\* C24 witness: an execution of an Async pipe awaits its second step, the
\* first one settled.
C24_Witness ==
    /\ variant = "Async"
    /\ \E i \in 1..Len(execs) :
          /\ Running(execs[i])
          /\ Len(execs[i].inv) = 2
          /\ execs[i].flying = 1
          /\ execs[i].pc = "step"

\* C25 as claimed: a Pipe.Async given a promise, or a producer returning a
\* promise, starts from the value the promise is fulfilled with: when that
\* value is an Error, the zero-argument call returns that Error and no step
\* is invoked; otherwise step 1 receives an Ok carrying that value.
C25_PromiseInitResolved ==
    (variant = "Async" /\ initForm \in {"promise", "producerPromise"} /\ Len(execs) = 1)
    => LET e == execs[1]
       IN  /\ IsError(given) =>
                 /\ e.inv = << >>
                 /\ (e.kind = "call" /\ e.st = "returned") => e.ret = <<given>>
           /\ (~IsError(given) /\ Len(e.inv) >= 1) =>
                 /\ IsOk(e.inv[1].arg)
                 /\ e.inv[1].arg.data = given.data

\* ------------------------------ further claims on the functions of Result

C29_ProducerOnce ==
    /\ initForm \in {"producer", "producerPromise"} => producerCalls = 1
    /\ initForm \in {"value", "promise"} => producerCalls = 0

\* C29 witness: a pipe built from a producer has a step registered and was
\* executed twice; the producer was invoked once.
C29_Witness ==
    /\ initForm = "producer"
    /\ Len(transformers) >= 1
    /\ Len(execs) = 2
    /\ \A i \in 1..2 : ~Running(execs[i]) /\ Len(execs[i].inv) >= 1
    /\ producerCalls = 1

\* Execution e ran on the steps registered when it started, which are still
\* the first registered steps ts of the pipe: it invoked them from the first
\* on, in registration order, and all of them when none returned an Error or
\* threw.
InRegistrationOrder(e, ts) ==
    /\ Len(e.steps0) <= Len(ts)
    /\ \A j \in 1..Len(e.steps0) : e.steps0[j] = ts[j]
    /\ Len(e.inv) <= Len(e.steps0)
    /\ \A j \in 1..Len(e.inv) : e.inv[j].idx = j /\ e.inv[j].kind = e.steps0[j]
    /\ (e.st = "returned" /\ IsOk(initial) /\ NoErrorIn(e)) => Len(e.inv) = Len(e.steps0)

\* C30: steps can be registered at any time, also after zero-argument calls
\* and iterations: a registration appends its step after the steps already
\* registered, a call or an iteration leaves the registered steps as they
\* are, and every execution invokes the steps registered before it, the
\* earlier ones first and a step registered since the last execution after
\* them.
C30_AlwaysBuilding ==
    [][/\ \/ transformers' = transformers
          \/ \E kind \in StepKinds :
                transformers' = Append(transformers, kind) /\ execs' = execs
       /\ execs' # execs => transformers' = transformers
       /\ \A i \in 1..Len(execs') : InRegistrationOrder(execs'[i], transformers')]_vars

\* C30 witness: a Sync pipe ran with the step "inc", then "dbl" was
\* registered, and the second call invoked "inc" and then "dbl".
C30_Witness ==
    /\ variant = "Sync"
    /\ transformers = <<"inc", "dbl">>
    /\ Len(execs) = 2
    /\ execs[1].kind = "call" /\ execs[2].kind = "call"
    /\ execs[1].steps0 = <<"inc">>
    /\ Len(execs[1].inv) = 1
    /\ execs[2].steps0 = <<"inc", "dbl">>
    /\ Len(execs[2].inv) = 2
    /\ execs[2].inv[1].kind = "inc"
    /\ execs[2].inv[2].kind = "dbl"
    /\ execs[2].st = "returned"

\* ---------------------------------------------------- claims on the logger

\* C22 as claimed: whatever Logger.Engine does when it is invoked for a
\* newly built Result (return a promise that resolves or rejects, or throw),
\* Ok, Error and the From functions return the Result they built and no
\* exception reaches their caller.
C22_EngineInsulated ==
    rcons.sign # "none"
    => /\ rout = "returned"
       /\ rv = rcons.res

\* C28: a construction by Ok or Error decides by its log parameter when it
\* has one and by the setting of its kind otherwise (LogOkResult for Ok,
\* LogErrorResult for Error); Logger.Engine is invoked once, with the Result
\* just built, when the decision is true and an Engine is installed, and is
\* not invoked otherwise; a function that builds nothing invokes nothing.
C28_LogDecision ==
    rout # "none"
    => IF rcons.sign = "none" THEN rcalls = << >>
       ELSE LET decision ==
                    CASE rcons.log = "true" -> TRUE
                      [] rcons.log = "false" -> FALSE
                      [] rcons.sign = "ok" -> rlogger.LogOkResult
                      [] OTHER -> rlogger.LogErrorResult
            IN  /\ (decision /\ rlogger.Engine # "null") => rcalls = <<rcons.res>>
                /\ ~(decision /\ rlogger.Engine # "null") => rcalls = << >>
                /\ rout = "returned" => rv = rcons.res

\* C28 witness: with LogOkResult and LogErrorResult set and an Engine
\* installed, an Ok was built, then Error() without a log parameter handed
\* its Error to the Engine.
C28_Witness ==
    /\ rlogger.LogErrorResult /\ rlogger.LogOkResult
    /\ rlogger.Engine = "resolves"
    /\ rn = 2
    /\ IsOk(rin)
    /\ rop.op = "Error"
    /\ rcons.sign = "error"
    /\ rcons.log = "unset"
    /\ rcalls = <<rv>>
    /\ rout = "returned"

====
